---- MODULE Spec2Model ----
(***************************************************************************)
(* Song catalogue HTTP API (src/server.py, src/errors.py).                 *)
(*                                                                         *)
(* The document store is a sequence of song documents in insertion order.  *)
(* Request parameters are Python values: an absent parameter (None), a     *)
(* string (a sequence of characters) or an int.  Every handler is          *)
(* translated from its code; the store operations it calls (find,          *)
(* aggregate, update_one, find_one) are modelled by what the driver does.  *)
(***************************************************************************)
EXTENDS Integers, Sequences, FiniteSets, Bags, TLC

VARIABLES
    store,      \* the "songs" collection: sequence of documents
    inflight,   \* bag of POST /songs/rating requests validated, before update_one
    last,       \* the response produced by the latest step (NoResponse if none)
    acked,      \* history: bag of (song_id, rating) answered 200 by POST /songs/rating
    overlapped  \* history: (song_id, rating) answered 200 while an equal request was in flight

vars == <<store, inflight, last, acked, overlapped>>

\* ---------------------------------------------------------------- bounds
\* Upper bound on the number of rating requests admitted past validation.
MaxRatings == 2
\* Upper bound on the number of POST /songs/rating requests in flight at once.
NumWorkers == 2

\* ---------------------------------------------------------------- Python values
None == [t |-> "none", s |-> <<>>, i |-> 0]
Str(chars) == [t |-> "str", s |-> chars, i |-> 0]
IntVal(n) == [t |-> "int", s |-> <<>>, i |-> n]

\* Python truthiness of None, a str or an int.
Truthy(v) ==
    CASE v.t = "none" -> FALSE
      [] v.t = "str" -> v.s # <<>>
      [] v.t = "int" -> v.i # 0

\* `a or b`
Or(a, b) == IF Truthy(a) THEN a ELSE b

DigitVal == ("0" :> 0) @@ ("1" :> 1) @@ ("2" :> 2) @@ ("3" :> 3) @@ ("4" :> 4)
            @@ ("5" :> 5) @@ ("6" :> 6) @@ ("7" :> 7) @@ ("8" :> 8) @@ ("9" :> 9)

RECURSIVE DigitsValue(_)
DigitsValue(ds) ==
    IF ds = <<>> THEN 0
    ELSE 10 * DigitsValue(SubSeq(ds, 1, Len(ds) - 1)) + DigitVal[ds[Len(ds)]]

\* int(v): an int is returned as is; a str parses as an optional sign followed
\* by one or more decimal digits, anything else raises ValueError (ok = FALSE).
ParseInt(v) ==
    IF v.t = "int" THEN [ok |-> TRUE, val |-> v.i]
    ELSE IF v.t # "str" THEN [ok |-> FALSE, val |-> 0]
    ELSE
      LET signed == v.s # <<>> /\ v.s[1] \in {"-", "+"}
          digits == IF signed THEN Tail(v.s) ELSE v.s
          good == digits # <<>> /\ \A k \in 1..Len(digits) : digits[k] \in DOMAIN DigitVal
      IN  IF ~good THEN [ok |-> FALSE, val |-> 0]
          ELSE IF signed /\ v.s[1] = "-" THEN [ok |-> TRUE, val |-> 0 - DigitsValue(digits)]
          ELSE [ok |-> TRUE, val |-> DigitsValue(digits)]

DigitChar == <<"0", "1", "2", "3", "4", "5", "6", "7", "8", "9">>

RECURSIVE IntToChars(_)
IntToChars(n) ==
    IF n < 0 THEN <<"-">> \o IntToChars(0 - n)
    ELSE IF n < 10 THEN <<DigitChar[n + 1]>>
    ELSE IntToChars(n \div 10) \o <<DigitChar[(n % 10) + 1]>>

\* str.format of a value: str(None) is "None", a str is itself.
Format(v) ==
    CASE v.t = "none" -> <<"None">>
      [] v.t = "str" -> v.s
      [] v.t = "int" -> IntToChars(v.i)

\* ---------------------------------------------------------------- object identifiers
HexLower == {"0", "1", "2", "3", "4", "5", "6", "7", "8", "9", "a", "b", "c", "d", "e", "f"}
HexUpper == {"A", "B", "C", "D", "E", "F"}

LowerChar(c) ==
    CASE c = "A" -> "a" [] c = "B" -> "b" [] c = "C" -> "c"
      [] c = "D" -> "d" [] c = "E" -> "e" [] c = "F" -> "f"
      [] OTHER -> c

\* bson.objectid.ObjectId(v): accepts a string of hexadecimal characters of the
\* identifier length (24 in bson; identifiers are scaled to 2 characters here),
\* raises InvalidId otherwise.  The identifier prints as lower-case hex.
ObjectId(v) ==
    IF v.t = "str" /\ Len(v.s) = Len(<<"h", "h">>)
       /\ \A k \in 1..Len(v.s) : v.s[k] \in HexLower \cup HexUpper
    THEN [ok |-> TRUE, oid |-> [k \in 1..Len(v.s) |-> LowerChar(v.s[k])]]
    ELSE [ok |-> FALSE, oid |-> <<>>]

\* ---------------------------------------------------------------- errors.py
ApiError(message, status_code) == [message |-> message, status_code |-> status_code]

\* Plausible slip: the two arguments of format() in the other order.
InvalidArgumentErrorSwapped(value, arg) ==
    ApiError(<<"\"", arg, "\" is not a valid argument for parameter \"">>
             \o Format(value) \o <<"\"">>, 500)

InvalidArgumentError(value, arg) ==
    ApiError(<<"\"">> \o Format(value)
             \o <<"\" is not a valid argument for parameter \"", arg, "\"">>, 500)

MissingRequireArgumentError(arg, url) ==
    ApiError(<<"argument \"", arg, "\" is required for endpoint \"", url, "\"">>, 500)

ObjectNotFoundError(oid) ==
    ApiError(<<"song_id \"">> \o oid \o <<"\" not found">>, 404)

to_dict(e) == [message |-> e.message]

\* ---------------------------------------------------------------- responses
NoResponse == [endpoint |-> "none", req |-> <<>>, status |-> 0, kind |-> "none", body |-> <<>>]

\* Response(json_util.dumps(body), mimetype='application/json', status=status)
Response(endpoint, req, kind, body, status) ==
    [endpoint |-> endpoint, req |-> req, status |-> status, kind |-> kind, body |-> body]

ErrorResponse(endpoint, req, e) ==
    Response(endpoint, req, "error", to_dict(e), e.status_code)

\* An exception that leaves the view function: Flask's generic handler answers
\* 500 Internal Server Error, not the JSON envelope.
Fault(endpoint, req, exc) ==
    Response(endpoint, req, "fault", exc, 500)

\* ---------------------------------------------------------------- the collection
\* Song documents as seeded (tests: songs.json is inserted as is; a song has no
\* "rating" field until it is first rated).  artist and title are held as their
\* text-index tokens.
Song(id, artist, title, level, difficulty) ==
    [_id |-> id, artist |-> artist, title |-> title, level |-> level,
     difficulty |-> difficulty, has_rating |-> FALSE, rating |-> <<>>]

Fixture == <<
    Song(<<"a", "1">>, <<"the", "yousicians">>, <<"lycanthropic", "metamorphosis">>, 1, 3),
    Song(<<"b", "2">>, <<"the", "yousicians">>, <<"babysitting">>, 1, 4),
    Song(<<"c", "3">>, <<"mr", "fastfinger">>, <<"awaki-waki">>, 2, 5) >>

Min(a, b) == IF a < b THEN a ELSE b

\* collection.find(skip=skip, limit=limit): documents in natural order; a limit
\* of 0 is the driver's "no limit".
Find(coll, skip, limit) ==
    LET rest == IF skip >= Len(coll) THEN <<>> ELSE SubSeq(coll, skip + 1, Len(coll))
    IN  IF limit = 0 THEN rest ELSE SubSeq(rest, 1, Min(limit, Len(rest)))

RECURSIVE GCD(_, _)
GCD(a, b) == IF b = 0 THEN a ELSE GCD(b, a % b)

\* A non-negative quotient num / den (den > 0) in lowest terms.
Fraction(num, den) ==
    LET g == GCD(num, den) IN [num |-> num \div g, den |-> den \div g]

RECURSIVE SumDifficulty(_, _)
SumDifficulty(coll, idx) ==
    IF idx = {} THEN 0
    ELSE LET k == CHOOSE x \in idx : TRUE
         IN  coll[k].difficulty + SumDifficulty(coll, idx \ {k})

\* Plausible slip: "$sum" in place of "$avg".
AggregateSum(coll, filtered, level) ==
    LET levels == {coll[k].level : k \in 1..Len(coll)}
        members(l) == {k \in 1..Len(coll) : coll[k].level = l}
        groups == {[_id |-> l,
                    averageDifficulty |-> Fraction(SumDifficulty(coll, members(l)), 1)]
                   : l \in levels}
    IN  IF filtered THEN {g \in groups : g._id = level} ELSE groups

\* collection.aggregate([{$group: {_id: "$level", averageDifficulty: {$avg:
\* "$difficulty"}}}] + ([{$match: {_id: level}}] if filtered)); the order of
\* the groups is not specified, so the result is a set.
Aggregate(coll, filtered, level) ==
    LET levels == {coll[k].level : k \in 1..Len(coll)}
        members(l) == {k \in 1..Len(coll) : coll[k].level = l}
        groups == {[_id |-> l,
                    averageDifficulty |-> Fraction(SumDifficulty(coll, members(l)),
                                                   Cardinality(members(l)))] : l \in levels}
    IN  IF filtered THEN {g \in groups : g._id = level} ELSE groups

StopWords == {"the", "a", "an", "of"}

\* collection.find({"$text": {"$search": message}}): the documents whose indexed
\* fields (artist, title) hold one of the message's terms; stop words are dropped.
TextSearch(coll, terms) ==
    LET wanted == {terms[k] : k \in 1..Len(terms)} \ StopWords
        tokens(d) == {d.artist[k] : k \in 1..Len(d.artist)}
                     \cup {d.title[k] : k \in 1..Len(d.title)}
    IN  SelectSeq(coll, LAMBDA d : (tokens(d) \ StopWords) \cap wanted # {})

\* {"$inc": {"rating.<key>": 1}} applied to one document: the field is created
\* at 1 when it is missing, incremented otherwise.
IncRating(doc, key) ==
    [doc EXCEPT !.has_rating = TRUE,
                !.rating = [k \in (DOMAIN doc.rating) \cup {key} |->
                              IF k = key
                              THEN (IF k \in DOMAIN doc.rating THEN doc.rating[k] + 1 ELSE 1)
                              ELSE doc.rating[k]]]

\* Plausible slip: "$set" of the counter to 1 instead of "$inc".
UpdateOneSet(coll, oid, key) ==
    [coll |-> [k \in 1..Len(coll) |->
                 IF coll[k]._id = oid
                 THEN [coll[k] EXCEPT !.has_rating = TRUE,
                                      !.rating = [q \in (DOMAIN coll[k].rating) \cup {key} |->
                                                    IF q = key THEN 1 ELSE coll[k].rating[q]]]
                 ELSE coll[k]],
     matched_count |-> Cardinality({k \in 1..Len(coll) : coll[k]._id = oid})]

\* Plausible slip: the update replaces the whole rating mapping.
UpdateOneReplace(coll, oid, key) ==
    [coll |-> [k \in 1..Len(coll) |->
                 IF coll[k]._id = oid
                 THEN [coll[k] EXCEPT !.has_rating = TRUE, !.rating = [q \in {key} |-> 1]]
                 ELSE coll[k]],
     matched_count |-> Cardinality({k \in 1..Len(coll) : coll[k]._id = oid})]

\* collection.update_one({"_id": oid}, {"$inc": {"rating.<key>": 1}}): one atomic
\* store operation on the first matching document (_id is unique).
UpdateOne(coll, oid, key) ==
    LET hits == {k \in 1..Len(coll) : coll[k]._id = oid}
        first == CHOOSE k \in hits : \A j \in hits : k <= j
    IN  IF hits = {} THEN [coll |-> coll, matched_count |-> 0]
        ELSE [coll |-> [coll EXCEPT ![first] = IncRating(coll[first], key)],
              matched_count |-> 1]

\* collection.find_one({"_id": oid}): the document, or None.
FindOne(coll, oid) ==
    LET hits == {k \in 1..Len(coll) : coll[k]._id = oid}
    IN  IF hits = {} THEN [found |-> FALSE, doc |-> Song(<<>>, <<>>, <<>>, 0, 0)]
        ELSE [found |-> TRUE, doc |-> coll[CHOOSE k \in hits : \A j \in hits : k <= j]]

\* ---------------------------------------------------------------- GET /songs
\* One pass of the validation loop: a truthy value must convert with int() to a
\* number >= 0; a falsy one (the default 0) is left as it is.
ValidateListArg(val) ==
    IF ~Truthy(val) THEN [ok |-> TRUE, val |-> val.i]
    ELSE LET r == ParseInt(val)
         IN  IF r.ok /\ r.val >= 0 THEN r ELSE [ok |-> FALSE, val |-> 0]

get_songs(coll, req) ==
    LET p == Or(req.p, IntVal(0))
        n == Or(req.n, IntVal(10))
        vp == ValidateListArg(p)
        vn == ValidateListArg(n)
    IN  IF ~vp.ok THEN ErrorResponse("get_songs", req, InvalidArgumentError(p, "p"))
        ELSE IF ~vn.ok THEN ErrorResponse("get_songs", req, InvalidArgumentError(n, "n"))
        ELSE LET limit == vn.val
                 skip == vp.val * limit
             IN  Response("get_songs", req, "songs", Find(coll, skip, limit), 200)

\* ---------------------------------------------------------------- GET /songs/avg/difficulty
get_avg_difficulty(coll, req) ==
    LET level == req.level
    IN  IF Truthy(level)
        THEN LET r == ParseInt(level)
             IN  IF r.ok
                 THEN Response("get_avg_difficulty", req, "groups",
                               Aggregate(coll, TRUE, r.val), 200)
                 ELSE ErrorResponse("get_avg_difficulty", req,
                                    InvalidArgumentError(level, "level"))
        ELSE Response("get_avg_difficulty", req, "groups", Aggregate(coll, FALSE, 0), 200)

\* ---------------------------------------------------------------- GET /songs/search
songs_search(coll, req) ==
    IF ~Truthy(req.message)
    THEN ErrorResponse("songs_search", req,
                       MissingRequireArgumentError("message", "/songs/search"))
    ELSE Response("songs_search", req, "songs", TextSearch(coll, req.message.s), 200)

\* ---------------------------------------------------------------- POST /songs/rating
RatingValues == {<<"1">>, <<"2">>, <<"3">>, <<"4">>, <<"5">>}

\* Plausible slip: the rating is checked before the identifier is parsed.
ValidateRatingRatingFirst(req) ==
    LET id == ObjectId(req.song_id)
        bad == [ok |-> FALSE, song_id |-> <<>>, rating |-> <<>>]
    IN  IF ~Truthy(req.song_id)
        THEN bad @@ [error |-> MissingRequireArgumentError("song_id", "/songs/rating")]
        ELSE IF ~Truthy(req.rating) \/ req.rating.s \notin RatingValues
        THEN bad @@ [error |-> InvalidArgumentError(req.rating, "rating")]
        ELSE IF ~id.ok
        THEN bad @@ [error |-> InvalidArgumentError(req.song_id, "song_id")]
        ELSE [ok |-> TRUE, song_id |-> id.oid, rating |-> req.rating.s,
              error |-> ApiError(<<>>, 0)]

\* Lines 133-160: the checks of song_id and rating, in the order of the code.
ValidateRating(req) ==
    LET id == ObjectId(req.song_id)
        bad == [ok |-> FALSE, song_id |-> <<>>, rating |-> <<>>]
    IN  IF ~Truthy(req.song_id)
        THEN bad @@ [error |-> MissingRequireArgumentError("song_id", "/songs/rating")]
        ELSE IF ~id.ok
        THEN bad @@ [error |-> InvalidArgumentError(req.song_id, "song_id")]
        ELSE IF ~Truthy(req.rating) \/ req.rating.s \notin RatingValues
        THEN bad @@ [error |-> InvalidArgumentError(req.rating, "rating")]
        ELSE [ok |-> TRUE, song_id |-> id.oid, rating |-> req.rating.s,
              error |-> ApiError(<<>>, 0)]

\* Plausible slip: the result of update_one is not looked at.
RatingResultUnchecked(req, oid, matched_count) ==
    Response("songs_rating", req, "ok", [status |-> "OK"], 200)

\* Lines 167-179: 404 when update_one matched nothing, 200 {"status": "OK"} otherwise.
RatingResult(req, oid, matched_count) ==
    IF matched_count = 0
    THEN ErrorResponse("songs_rating", req, ObjectNotFoundError(oid))
    ELSE Response("songs_rating", req, "ok", [status |-> "OK"], 200)

\* ---------------------------------------------------------------- GET /songs/avg/rating/<song_id>
RECURSIVE SumOver(_, _, _)
SumOver(ratings, keys, weighted) ==
    IF keys = {} THEN 0
    ELSE LET k == CHOOSE x \in keys : TRUE
         IN  (IF weighted THEN ParseInt(Str(k)).val * ratings[k] ELSE ratings[k])
             + SumOver(ratings, keys \ {k}, weighted)

RECURSIVE SumKeys(_)
SumKeys(keys) ==
    IF keys = {} THEN 0
    ELSE LET k == CHOOSE x \in keys : TRUE
         IN  ParseInt(Str(k)).val + SumKeys(keys \ {k})

\* Plausible slip: accu += float(k), the count left out of the product.
AccumulateUnweighted(ratings) ==
    [count |-> SumOver(ratings, DOMAIN ratings, FALSE), accu |-> SumKeys(DOMAIN ratings)]

\* Lines 202-205: count += v; accu += float(k) * v over the mapping's items.
Accumulate(ratings) ==
    [count |-> SumOver(ratings, DOMAIN ratings, FALSE),
     accu |-> SumOver(ratings, DOMAIN ratings, TRUE)]

songs_ratings(coll, req) ==
    LET id == ObjectId(req.song_id)
        song == FindOne(coll, id.oid)
        ratings == song.doc.rating
        ints == {ParseInt(Str(k)).val : k \in DOMAIN ratings}
        min_rating == CHOOSE m \in ints : \A x \in ints : m <= x
        max_rating == CHOOSE m \in ints : \A x \in ints : m >= x
        acc == Accumulate(ratings)
    IN  IF ~id.ok
        THEN ErrorResponse("songs_ratings", req, InvalidArgumentError(req.song_id, "song_id"))
        ELSE IF ~song.found THEN Fault("songs_ratings", req, "TypeError")
        ELSE IF ~song.doc.has_rating THEN Fault("songs_ratings", req, "KeyError")
        ELSE IF DOMAIN ratings = {} THEN Fault("songs_ratings", req, "ValueError")
        ELSE IF acc.count = 0 THEN Fault("songs_ratings", req, "ZeroDivisionError")
        ELSE Response("songs_ratings", req, "stats",
                      [_id |-> song.doc._id, min_rating |-> min_rating,
                       max_rating |-> max_rating,
                       avg_rating |-> Fraction(acc.accu, acc.count)], 200)

\* ---------------------------------------------------------------- request inputs
RawInts == {None, Str(<<>>), Str(<<"f">>), Str(<<"-", "1">>),
            Str(<<"0">>), Str(<<"1">>), Str(<<"2">>)}

RawMessages == {None, Str(<<>>), Str(<<"the">>), Str(<<"fastfinger">>),
                Str(<<"yousicians", "babysitting">>)}

RawIds == {None, Str(<<>>), Str(<<"h", "d">>), Str(<<"a", "1">>), Str(<<"A", "1">>),
           Str(<<"b", "2">>), Str(<<"d", "4">>)}

\* The path segment <song_id> of a routed request is a non-empty string.
PathIds == {v \in RawIds : Truthy(v)}

RawRatings == {None, Str(<<>>), Str(<<"0">>), Str(<<"1">>), Str(<<"4">>),
               Str(<<"5">>), Str(<<"6">>), Str(<<"1", "0">>)}

RECURSIVE TotalRatings(_)
TotalRatings(coll) ==
    IF coll = <<>> THEN 0
    ELSE SumOver(Head(coll).rating, DOMAIN Head(coll).rating, FALSE)
         + TotalRatings(Tail(coll))

\* Room for one more rating request under the bounds.
Admissible ==
    /\ BagCardinality(inflight) < NumWorkers
    /\ TotalRatings(store) + BagCardinality(inflight) < MaxRatings

\* ---------------------------------------------------------------- state machine
Init ==
    /\ store \in {SubSeq(Fixture, 1, k) : k \in 0..Len(Fixture)}
    /\ inflight = EmptyBag
    /\ last = NoResponse
    /\ acked = EmptyBag
    /\ overlapped = {}

GetSongs ==
    \E p \in RawInts, n \in RawInts :
        /\ last' = get_songs(store, [p |-> p, n |-> n])
        /\ UNCHANGED <<store, inflight, acked, overlapped>>

GetAvgDifficulty ==
    \E level \in RawInts :
        /\ last' = get_avg_difficulty(store, [level |-> level])
        /\ UNCHANGED <<store, inflight, acked, overlapped>>

SongsSearch ==
    \E message \in RawMessages :
        /\ last' = songs_search(store, [message |-> message])
        /\ UNCHANGED <<store, inflight, acked, overlapped>>

SongsRatings ==
    \E song_id \in PathIds :
        /\ last' = songs_ratings(store, [song_id |-> song_id])
        /\ UNCHANGED <<store, inflight, acked, overlapped>>

\* The update_one call and the response built from its result.
ApplyRating(req, oid, key) ==
    LET result == UpdateOne(store, oid, key)
        arg == [song_id |-> oid, rating |-> key]
    IN  /\ store' = result.coll
        /\ last' = RatingResult(req, oid, result.matched_count)
        /\ acked' = IF last'.status = 200 THEN acked (+) SetToBag({arg}) ELSE acked

\* POST /songs/rating served from request to response with no other request in between.
SongsRating ==
    \E song_id \in RawIds, rating \in RawRatings :
        LET req == [song_id |-> song_id, rating |-> rating]
            v == ValidateRating(req)
        IN  /\ inflight = EmptyBag
            /\ Admissible
            /\ IF v.ok
               THEN ApplyRating(req, v.song_id, v.rating)
               ELSE /\ last' = ErrorResponse("songs_rating", req, v.error)
                    /\ UNCHANGED <<store, acked>>
            /\ UNCHANGED <<inflight, overlapped>>

\* POST /songs/rating, lines 133-160: a worker takes a request and validates it.
SongsRatingBegin ==
    \E song_id \in RawIds, rating \in RawRatings :
        LET req == [song_id |-> song_id, rating |-> rating]
            v == ValidateRating(req)
        IN  /\ Admissible
            /\ IF v.ok
               THEN /\ inflight' = inflight (+) SetToBag({[song_id |-> v.song_id,
                                                          rating |-> v.rating]})
                    /\ last' = NoResponse
               ELSE /\ last' = ErrorResponse("songs_rating", req, v.error)
                    /\ UNCHANGED inflight
            /\ UNCHANGED <<store, acked, overlapped>>

\* POST /songs/rating, lines 162-179: the worker's update_one and its response.
SongsRatingUpdate ==
    \E arg \in BagToSet(inflight) :
        LET req == [song_id |-> Str(arg.song_id), rating |-> Str(arg.rating)]
        IN  /\ inflight' = inflight (-) SetToBag({arg})
            /\ ApplyRating(req, arg.song_id, arg.rating)
            /\ overlapped' = IF last'.status = 200 /\ BagIn(arg, inflight')
                             THEN overlapped \cup {arg} ELSE overlapped

\* One request at a time, all five endpoints.
Next ==
    \/ GetSongs
    \/ GetAvgDifficulty
    \/ SongsSearch
    \/ SongsRating
    \/ SongsRatings

Spec == Init /\ [][Next]_vars

\* Rating requests served by concurrent workers.
NextConc ==
    \/ SongsRatingBegin
    \/ SongsRatingUpdate
    \/ SongsRatings

SpecConc == Init /\ [][NextConc]_vars

\* ================================================================ properties
\* The recorded count of rating value q on a document (an absent key counts 0).
CountOf(doc, q) == IF q \in DOMAIN doc.rating THEN doc.rating[q] ELSE 0

InStore(oid) == \E k \in 1..Len(store) : store[k]._id = oid

DocOf(oid) == store[CHOOSE k \in 1..Len(store) : store[k]._id = oid]

\* The identifier a well-formed song_id parameter denotes, as it prints.
OidOf(v) == ObjectId(v).oid

RatingInt(q) == ParseInt(Str(q)).val

\* C1: a well-formed song_id matching no document ends POST /songs/rating (valid
\* rating) and GET /songs/avg/rating/<song_id> with 404 and the message
\* song_id "<id>" not found, never with 500 or an unhandled exception.
C1_UnknownIdAnswers404 ==
    ( /\ last.endpoint \in {"songs_rating", "songs_ratings"}
      /\ ObjectId(last.req.song_id).ok
      /\ ~InStore(OidOf(last.req.song_id))
      /\ (last.endpoint = "songs_rating" =>
            last.req.rating.t = "str" /\ last.req.rating.s \in RatingValues) )
    => ( /\ last.kind = "error"
         /\ last.status = 404
         /\ last.body.message
              = <<"song_id \"">> \o OidOf(last.req.song_id) \o <<"\" not found">> )

\* A page or page-size parameter that is omitted or a non-negative integer.
ValidPageArg(v) == v.t = "none" \/ (ParseInt(v).ok /\ ParseInt(v).val >= 0)

PageArg(v, default) == IF v.t = "none" THEN default ELSE ParseInt(v).val

\* C2: for valid p >= 0 and n >= 0 (given or defaulted to 0 and 10) GET /songs
\* answers 200 with exactly min(n, total - p*n) items, 0 when p*n >= total.
C2_ListingSize ==
    ( /\ last.endpoint = "get_songs"
      /\ ValidPageArg(last.req.p)
      /\ ValidPageArg(last.req.n) )
    => LET p == PageArg(last.req.p, 0)
           n == PageArg(last.req.n, 10)
           total == Len(store)
       IN  /\ last.status = 200
           /\ last.kind = "songs"
           /\ Len(last.body) = IF p * n >= total THEN 0 ELSE Min(n, total - p * n)

\* C3: no rating increment is lost: every counter rating[v] of every song equals
\* the number of POST /songs/rating requests for that song and value answered
\* 200 (all counters start at 0), whatever the interleaving of the workers.
C3_NoLostIncrement ==
    \A k \in 1..Len(store) : \A q \in RatingValues :
        CountOf(store[k], q) = CopiesIn([song_id |-> store[k]._id, rating |-> q], acked)

\* Two requests for the same song and value were in flight together and both
\* have answered 200.
C3_Witness ==
    \E arg \in overlapped :
        /\ CopiesIn(arg, acked) = 2
        /\ inflight = EmptyBag
        /\ CountOf(DocOf(arg.song_id), arg.rating) = 2

KeysInRange ==
    \A k \in 1..Len(store) : DOMAIN store[k].rating \subseteq RatingValues

CountsMonotone ==
    /\ Len(store') = Len(store)
    /\ \A k \in 1..Len(store) :
         /\ store'[k]._id = store[k]._id
         /\ DOMAIN store[k].rating \subseteq DOMAIN store'[k].rating
         /\ \A q \in DOMAIN store[k].rating : store'[k].rating[q] >= store[k].rating[q]

\* C5: in every reachable state every rating mapping has keys in "1".."5" only,
\* and from one state to the next no count decreases and no key is removed.
C5_RatingKeysAndCounts == []KeysInRange /\ [][CountsMonotone]_vars

\* A song holding two rating keys.
C5_Witness ==
    \E k \in 1..Len(store) : Cardinality(DOMAIN store[k].rating) = 2

\* C6: POST /songs/rating checks song_id for presence, then for being an object
\* identifier, then the rating for membership in "1".."5"; the first failing
\* check decides the 500 response, also when the identifier is unknown.
C6_ValidationOrder ==
    last.endpoint = "songs_rating" =>
      LET sid == last.req.song_id
          r == last.req.rating
          answers(e) == /\ last.kind = "error"
                        /\ last.status = 500
                        /\ e.status_code = 500
                        /\ last.body.message = e.message
      IN  /\ ~Truthy(sid) => answers(MissingRequireArgumentError("song_id", "/songs/rating"))
          /\ (Truthy(sid) /\ ~ObjectId(sid).ok) => answers(InvalidArgumentError(sid, "song_id"))
          /\ (Truthy(sid) /\ ObjectId(sid).ok /\ (r.t = "none" \/ r.s \notin RatingValues))
               => answers(InvalidArgumentError(r, "rating"))

\* A well-formed but unknown song_id with an out-of-set rating was answered 500.
C6_Witness ==
    /\ last.endpoint = "songs_rating"
    /\ last.req.song_id = Str(<<"d", "4">>)
    /\ last.req.rating = Str(<<"6">>)
    /\ last.status = 500

\* The response is the InvalidArgument envelope for one of the named parameters.
AnswersInvalid(names) ==
    /\ last.kind = "error"
    /\ last.status = 500
    /\ \E name \in names :
         /\ last.body.message
              = <<"\"">> \o last.req[name].s
                \o <<"\" is not a valid argument for parameter \"", name, "\"">>

NotAnInt(v) == ~ParseInt(v).ok \/ ParseInt(v).val < 0

SuppliedBad(v) == v.t = "str" /\ NotAnInt(v)

SuppliedNonEmptyBad(v) == v.t = "str" /\ v.s # <<>> /\ NotAnInt(v)

\* C7 as stated: whenever a supplied p or n does not parse as an integer or is
\* negative, GET /songs answers 500 with the InvalidArgument message for it.
C7_InvalidPageArg_AsStated ==
    (last.endpoint = "get_songs" /\ (SuppliedBad(last.req.p) \/ SuppliedBad(last.req.n)))
    => AnswersInvalid({name \in {"p", "n"} : SuppliedBad(last.req[name])})

\* C7 amended: whenever a supplied, non-empty p or n does not parse as an integer
\* or is negative, GET /songs answers 500 with the InvalidArgument message for
\* an offending parameter and returns no listing.
C7_InvalidPageArg ==
    (last.endpoint = "get_songs"
       /\ (SuppliedNonEmptyBad(last.req.p) \/ SuppliedNonEmptyBad(last.req.n)))
    => AnswersInvalid({name \in {"p", "n"} : SuppliedNonEmptyBad(last.req[name])})

\* A negative page size was refused while the page number was fine.
C7_Witness ==
    /\ last.endpoint = "get_songs"
    /\ last.req.p = Str(<<"1">>)
    /\ last.req.n = Str(<<"-", "1">>)
    /\ last.status = 500

\* C8: every request ends in a 200 payload or in the error envelope with status
\* 404 or 500; no exception leaves a handler.
C8_NoUnhandledException ==
    \/ last.kind = "none"
    \/ last.kind \in {"songs", "groups", "ok", "stats"} /\ last.status = 200
    \/ last.kind = "error" /\ last.status \in {404, 500}

RECURSIVE DifficultyTotal(_, _)
DifficultyTotal(coll, l) ==
    IF coll = <<>> THEN 0
    ELSE (IF Head(coll).level = l THEN Head(coll).difficulty ELSE 0)
         + DifficultyTotal(Tail(coll), l)

LevelsPresent == {store[k].level : k \in 1..Len(store)}

IsMeanOf(g, l) ==
    /\ g._id = l
    /\ g.averageDifficulty.den > 0
    /\ g.averageDifficulty.num * Cardinality({k \in 1..Len(store) : store[k].level = l})
         = g.averageDifficulty.den * DifficultyTotal(store, l)

\* C9: without level, one group per distinct level present, each with the mean
\* difficulty of its documents; with an integer level, that one group when the
\* level is present and no group (status 200) when it is not.
C9_AverageDifficultyGroups ==
    last.endpoint = "get_avg_difficulty" =>
      LET level == last.req.level
      IN  /\ level.t = "none" =>
                /\ last.status = 200
                /\ last.kind = "groups"
                /\ Cardinality(last.body) = Cardinality(LevelsPresent)
                /\ \A l \in LevelsPresent : \E g \in last.body : IsMeanOf(g, l)
          /\ (level.t = "str" /\ ParseInt(level).ok) =>
                /\ last.status = 200
                /\ last.kind = "groups"
                /\ Cardinality(last.body)
                     = IF ParseInt(level).val \in LevelsPresent THEN 1 ELSE 0
                /\ \A g \in last.body : IsMeanOf(g, ParseInt(level).val)

\* The unfiltered averages of a collection in which two songs share a level.
C9_Witness ==
    /\ last.endpoint = "get_avg_difficulty"
    /\ last.req.level = None
    /\ Len(store) = 3
    /\ Cardinality(last.body) = 2

\* The step added exactly one to rating[key] of the song oid and nothing else.
ExactlyOneIncrement(oid, key) ==
    /\ Len(store') = Len(store)
    /\ \E k \in 1..Len(store) :
         /\ store[k]._id = oid
         /\ \A q \in RatingValues :
              CountOf(store'[k], q) = CountOf(store[k], q) + (IF q = key THEN 1 ELSE 0)
         /\ DOMAIN store'[k].rating \subseteq RatingValues
         /\ [f \in {"_id", "artist", "title", "level", "difficulty"} |-> store'[k][f]]
              = [f \in {"_id", "artist", "title", "level", "difficulty"} |-> store[k][f]]
         /\ \A j \in 1..Len(store) : j # k => store'[j] = store[j]

StoreFrame ==
    /\ store' # store =>
         /\ last'.endpoint = "songs_rating"
         /\ last'.status = 200
         /\ ExactlyOneIncrement(OidOf(last'.req.song_id), last'.req.rating.s)
    /\ (last'.endpoint = "songs_rating" /\ last'.status = 200) => store' # store
    /\ (last'.status \in {404, 500}
          \/ last'.endpoint \in {"get_songs", "get_avg_difficulty", "songs_search",
                                 "songs_ratings"}) => store' = store

\* C10: the store changes only through a POST /songs/rating answered 200, which
\* adds exactly one to rating[v] of the song song_id; every other response
\* leaves the store unchanged, and a POST answers 200 only when it incremented.
C10_StoreFrame == [][StoreFrame]_vars

\* A rating was accepted in a collection holding other songs.
C10_Witness ==
    /\ last.endpoint = "songs_rating"
    /\ last.status = 200
    /\ Len(store) >= 2
    /\ TotalRatings(store) >= 1

====
